---- MODULE Spec2Model ----
(***************************************************************************)
(* Model of the captioning endpoint of no-code-toolkit:                    *)
(*   src/routes/v1/video/caption_video.py                                  *)
(*     caption_video_v1, download_video, process_transcription             *)
(*   src/services/cloud_storage.py  upload_file                            *)
(*                                                                         *)
(* Times are integer ticks (the code only compares and subtracts them).    *)
(* A text is a sequence of one-character strings, so that the substring    *)
(* test, lower() and upper() of the code are computed, not assumed.        *)
(* External collaborators (HTTP fetch, media engine, file system, storage) *)
(* succeed or raise nondeterministically.                                  *)
(***************************************************************************)
EXTENDS Integers, Sequences, FiniteSets, TLC

VARIABLES
    transcribe,          \* data['transcribe']: sequence of [word, start, end]
    replace_words,       \* data.get('replace', []): sequence of [find, replace]
    max_words_per_line,  \* settings.get('max_words_per_line', 1)
    all_caps,            \* settings.get('all_caps', False)
    video_duration,      \* video.duration of the downloaded source
    position,            \* settings.get('position', 'middle_center')
    font_family,         \* settings.get('font_family', 'Arial')
    fonts_dir,           \* the fonts directory: whether it exists, its listing
    pc,                  \* position of the request in caption_video_v1
    i,                   \* process_transcription: index of the next batch
    previous_end_time,   \* process_transcription: the timeline cursor
    clips,               \* process_transcription: the clips list (segments)
    batches,             \* process_transcription: history of batch, start_time,
                         \* end_time over the iterations of the while loop
    open_clips,          \* clip handles opened and not yet closed
    downloaded,          \* the file under downloads/ exists
    output_file,         \* the file under output/ exists
    exc,                 \* the exception in flight / last caught (its message)
    steps_ok,            \* which of the four stages completed without raising
    response             \* what caption_video_v1 returned

vars == <<transcribe, replace_words, max_words_per_line, all_caps,
          video_duration, position, font_family, fonts_dir, pc, i, previous_end_time, clips,
          batches, open_clips, downloaded, output_file, exc, steps_ok, response>>

inputs == <<transcribe, replace_words, max_words_per_line, all_caps,
            video_duration, position, font_family, fonts_dir>>

(***************************************************************************)
(* Bounds of the model.                                                    *)
(***************************************************************************)
MaxWords == 2   \* longest transcript
MaxTime == 3    \* longest video, in ticks
MaxRules == 2   \* longest list of replacement rules
MaxFonts == 2   \* most files in the fonts directory

(***************************************************************************)
(* Texts.                                                                  *)
(***************************************************************************)
\* str.lower() on one character (caption_video.py:208)
LowerChar(c) ==
    CASE c = "A" -> "a"
      [] c = "B" -> "b"
      [] c = "X" -> "x"
      [] c = "Y" -> "y"
      [] c = "M" -> "m"
      [] c = "O" -> "o"
      [] c = "S" -> "s"
      [] OTHER -> c

\* str.upper() on one character (caption_video.py:218)
UpperChar(c) ==
    CASE c = "a" -> "A"
      [] c = "b" -> "B"
      [] c = "x" -> "X"
      [] c = "y" -> "Y"
      [] OTHER -> c

Lower(s) == [k \in 1..Len(s) |-> LowerChar(s[k])]

Upper(s) == [k \in 1..Len(s) |-> UpperChar(s[k])]

\* Python's `f in w` on strings: f occurs as a contiguous substring of w
\* (the empty string occurs in every string)
IsSubstring(f, w) ==
    \E k \in 0..(Len(w) - Len(f)) : SubSeq(w, k + 1, k + Len(f)) = f

\* the test of caption_video.py:208
FindMatches(find, display_word) == IsSubstring(Lower(find), Lower(display_word))

\* caption_video.py:165: {item['find']: item['replace'] for item in replace_words}
\* as the sequence of (find, replace) items in the dict's iteration order: a
\* key keeps the position of its first insertion and the value of its last.
RECURSIVE Replacements(_)
Replacements(rules) ==
    IF rules = <<>> THEN <<>>
    ELSE LET d == Replacements(SubSeq(rules, 1, Len(rules) - 1))
             item == rules[Len(rules)]
         IN  IF \E k \in 1..Len(d) : d[k].find = item.find
             THEN [k \in 1..Len(d) |->
                     IF d[k].find = item.find
                     THEN [find |-> item.find, replace |-> item.replace]
                     ELSE d[k]]
             ELSE Append(d, item)

\* a slip of line 209: the replacement is added to the word (+=) instead of
\* taking its place
ReplaceStepAppends(display_word, item) ==
    IF FindMatches(item.find, display_word)
    THEN display_word \o item.replace
    ELSE display_word

\* one pass of the loop body of caption_video.py:207-209
ReplaceStep(display_word, item) ==
    IF FindMatches(item.find, display_word) THEN item.replace ELSE display_word

\* caption_video.py:207-209 over the first n items of the iteration order d
RECURSIVE ReplaceLoop(_, _, _)
ReplaceLoop(word, d, n) ==
    IF n = 0 THEN word ELSE ReplaceStep(ReplaceLoop(word, d, n - 1), d[n])

\* caption_video.py:205-209: the display word of one transcript word
DisplayWord(word, rules) ==
    LET d == Replacements(rules) IN ReplaceLoop(word, d, Len(d))

\* caption_video.py:211-214: add a space between words
JoinWord(display_text, display_word) ==
    IF display_text # <<>> THEN display_text \o <<" ">> \o display_word
    ELSE display_text \o display_word

\* caption_video.py:202-214 over the first n words of the batch
RECURSIVE BatchText(_, _, _)
BatchText(batch, rules, n) ==
    IF n = 0 THEN <<>>
    ELSE JoinWord(BatchText(batch, rules, n - 1), DisplayWord(batch[n].word, rules))

\* caption_video.py:202-218: the text handed to TextClip
DisplayText(batch, rules, caps) ==
    LET t == BatchText(batch, rules, Len(batch)) IN IF caps THEN Upper(t) ELSE t

(***************************************************************************)
(* The anchor of the caption (caption_video.py:226-260).                   *)
(***************************************************************************)
Bottom == <<"b", "o", "t", "t", "o", "m">>

Top == <<"t", "o", "p">>

Middle == <<"m", "i", "d", "d", "l", "e">>

Left == <<"l", "e", "f", "t">>

Right == <<"r", "i", "g", "h", "t">>

\* a slip of lines 228-238: 'top' is tested before 'bottom'
VerticalPositionTopFirst(pos) ==
    IF IsSubstring(Top, pos) THEN "top"
    ELSE IF IsSubstring(Bottom, pos) THEN "bottom"
    ELSE "center"

\* caption_video.py:228-260: vertical_position
VerticalPosition(pos) ==
    IF IsSubstring(Bottom, pos) THEN "bottom"
    ELSE IF IsSubstring(Top, pos) THEN "top"
    ELSE IF IsSubstring(Middle, pos) THEN "center"
    ELSE "center"

\* caption_video.py:228-260: horizontal_position
HorizontalPosition(pos) ==
    IF IsSubstring(Bottom, pos) \/ IsSubstring(Top, pos) \/ IsSubstring(Middle, pos)
    THEN IF IsSubstring(Left, pos) THEN "left"
         ELSE IF IsSubstring(Right, pos) THEN "right"
         ELSE "center"
    ELSE "center"

(***************************************************************************)
(* find_font_file (caption_video.py:316-359).                              *)
(* A font file is [base, ext]: its basename without extension, and its     *)
(* extension. The directory is [exists, files], files in listing order.    *)
(***************************************************************************)
\* caption_video.py:328: os.path.join(font_dir, "Arial.ttf")
DefaultFont == [base |-> <<"A", "r", "i", "a", "l">>, ext |-> "ttf"]

\* caption_video.py:335 and 342: .lower().replace(" ", "").replace("-", "")
NormalizeName(name) == SelectSeq(Lower(name), LAMBDA c : c \notin {" ", "-"})

\* a slip of line 338: every file of the directory is a candidate
GlobEveryFile(dir) == dir.files

\* caption_video.py:338: glob of *.ttf, then glob of *.TTF
GlobFonts(dir) ==
    SelectSeq(dir.files, LAMBDA f : f.ext = "ttf")
        \o SelectSeq(dir.files, LAMBDA f : f.ext = "TTF")

\* whitespace for str.split() (caption_video.py:354)
IsSpace(c) == c \in {" ", "\t"}

\* caption_video.py:354: str.split() with no argument: the runs of
\* non-whitespace characters
RECURSIVE Split(_)
Split(str) ==
    IF str = <<>> THEN <<>>
    ELSE IF IsSpace(Head(str)) THEN Split(Tail(str))
    ELSE LET n == CHOOSE k \in 1..Len(str) :
                      /\ \A j \in 1..k : ~IsSpace(str[j])
                      /\ k = Len(str) \/ IsSpace(str[k + 1])
         IN  <<SubSeq(str, 1, n)>> \o Split(SubSeq(str, n + 1, Len(str)))

\* caption_video.py:345: pass 1, on the normalized basename
ExactMatch(font_name_lower, font_file) ==
    IsSubstring(font_name_lower, NormalizeName(font_file.base))

\* caption_video.py:351-354: pass 2, on the lowercased basename
PartialMatch(font_name_lower, font_file) ==
    LET parts == Split(font_name_lower)
    IN  \E n \in 1..Len(parts) : IsSubstring(parts[n], Lower(font_file.base))

\* caption_video.py:316-359
FindFontFile(font_name, dir) ==
    IF ~dir.exists THEN DefaultFont
    ELSE LET font_name_lower == NormalizeName(font_name)
             font_files == GlobFonts(dir)
             exact == {k \in 1..Len(font_files) : ExactMatch(font_name_lower, font_files[k])}
             partial == {k \in 1..Len(font_files) : PartialMatch(font_name_lower, font_files[k])}
         IN  IF exact # {}
             THEN font_files[CHOOSE k \in exact : \A j \in exact : k <= j]
             ELSE IF partial # {}
             THEN font_files[CHOOSE k \in partial : \A j \in partial : k <= j]
             ELSE DefaultFont

\* caption_video.py:223-260: what TextClip is given besides the text
Style ==
    [font |-> FindFontFile(font_family, fonts_dir),
     vertical_align |-> VerticalPosition(position),
     horizontal_align |-> HorizontalPosition(position)]

(***************************************************************************)
(* process_transcription: batching and the timeline.                       *)
(***************************************************************************)
Min(a, b) == IF a < b THEN a ELSE b

\* a slip of line 177: every batch holds one entry
BatchSizeOne(words, idx, width) == Min(1, Len(words) - idx)

\* caption_video.py:177
BatchSize(words, idx, width) == Min(width, Len(words) - idx)

\* caption_video.py:178: transcribe[i:i+batch_size] (i counts from 0)
BatchAt(words, idx, width) ==
    SubSeq(words, idx + 1, idx + BatchSize(words, idx, width))

\* caption_video.py:181
StartTime(batch) == batch[1].start

\* caption_video.py:182
EndTime(batch) == batch[Len(batch)].end

\* a slip of line 187: the test against video.duration is left out
InvalidRangeNoDuration(start_time, end_time, duration) ==
    end_time < start_time \/ start_time < 0

\* a slip of line 187: a batch of zero length is skipped too
InvalidRangeStrict(start_time, end_time, duration) ==
    end_time <= start_time \/ start_time < 0 \/ end_time > duration

\* a slip of line 187: the test of a negative start is left out
InvalidRangeNoNegative(start_time, end_time, duration) ==
    end_time < start_time \/ end_time > duration

\* caption_video.py:187: the validity gate ("Skip invalid time ranges")
InvalidRange(start_time, end_time, duration) ==
    end_time < start_time \/ start_time < 0 \/ end_time > duration

\* a slip of line 192: the cursor is not tested against 0
HasGapFromZero(prev_end, start_time) ==
    start_time > prev_end /\ start_time # 0

\* caption_video.py:192: is a silent gap clip put before the caption
HasGap(prev_end, start_time) ==
    prev_end > 0 /\ start_time > prev_end /\ start_time # 0

\* caption_video.py:194: video.subclipped(previous_end_time, start_time)
GapClip(s, e) == [kind |-> "Gap", start |-> s, end |-> e, text |-> <<>>]

\* caption_video.py:220-278: the sub-clip with its text overlay
CaptionClip(s, e, t) ==
    [kind |-> "Caption", start |-> s, end |-> e, text |-> t, style |-> Style]

\* a slip of lines 191-196: the gap check is left out
WithGapOmitted(cs, prev_end, start_time) == cs

\* caption_video.py:191-196: the clips list after the gap check
WithGap(cs, prev_end, start_time) ==
    IF HasGap(prev_end, start_time)
    THEN Append(cs, GapClip(prev_end, start_time))
    ELSE cs

\* a slip of line 285: <= in place of <
WithRemainingAlways(cs, prev_end, duration) ==
    IF prev_end <= duration THEN Append(cs, GapClip(prev_end, duration)) ELSE cs

\* caption_video.py:285-287: the clips list after the trailing clip
WithRemaining(cs, prev_end, duration) ==
    IF prev_end < duration THEN Append(cs, GapClip(prev_end, duration)) ELSE cs

\* caption_video.py:175-282: one iteration of the while loop on the loop
\* state st = [i, previous_end_time, clips]
LoopBody(words, rules, width, caps, duration, st) ==
    LET batch == BatchAt(words, st.i, width)
        start_time == StartTime(batch)
        end_time == EndTime(batch)
    IN  IF InvalidRange(start_time, end_time, duration)
        THEN [st EXCEPT !.i = st.i + BatchSize(words, st.i, width)]
        ELSE [i |-> st.i + BatchSize(words, st.i, width),
              previous_end_time |-> end_time,
              clips |-> Append(WithGap(st.clips, st.previous_end_time, start_time),
                               CaptionClip(start_time, end_time,
                                           DisplayText(batch, rules, caps)))]

\* caption_video.py:172-173
LoopStart == [i |-> 0, previous_end_time |-> 0, clips |-> <<>>]

\* caption_video.py:175: while i < len(transcribe)
RECURSIVE Loop(_, _, _, _, _, _)
Loop(words, rules, width, caps, duration, st) ==
    IF st.i < Len(words)
    THEN Loop(words, rules, width, caps, duration,
              LoopBody(words, rules, width, caps, duration, st))
    ELSE st

\* caption_video.py:172-288: the clips list handed to concatenate_videoclips
Segments(words, rules, width, caps, duration) ==
    LET st == Loop(words, rules, width, caps, duration, LoopStart)
    IN  WithRemaining(st.clips, st.previous_end_time, duration)

\* handles of the clips held in the clips list, by position
ClipHandles(cs) == {<<"clip", k>> : k \in 1..Len(cs)}

VideoHandle == <<"video", 0>>

FinalHandle == <<"final", 0>>

\* caption_video.py:304-307: final_clip.close(), every clip.close(),
\* video.close(); closing a composite is taken to release the sub-clip and
\* the text clip it was built from
CloseAll(handles, cs) == handles \ ({FinalHandle, VideoHandle} \cup ClipHandles(cs))

(***************************************************************************)
(* caption_video_v1: where a raised exception is caught.                   *)
(***************************************************************************)
Route == "/v1/video/caption"

NoResponse == [body |-> <<"none", "">>, route |-> "", status |-> 0]

\* caption_video.py:112
Success(url) == [body |-> <<"url", url>>, route |-> Route, status |-> 200]

\* caption_video.py:116 and 126
Failure(msg) == [body |-> <<"error", msg>>, route |-> Route, status |-> 500]

\* a slip of lines 103-110: the clean-up is not wrapped in its own try, so its
\* error reaches the except clause of line 114
ExceptClauseCleanupUncaught(pos) ==
    CASE pos \in {"makedirs", "download"} -> "outer_except"
      [] pos \in {"load", "batch", "concat", "write", "upload", "cleanup"} -> "inner_except"
      [] pos = "finally" -> "done"
      [] OTHER -> "escaped"

\* The except clause that catches an exception raised at a position:
\*   lines 78-82 are inside the outer try only          -> line 124
\*   lines 86-99 (and the callees) are in the inner try -> line 114
\*   lines 104-108 have their own try, then fall to 112 -> line 109
\*   lines 120-121 have a bare except: pass             -> line 122
ExceptClause(pos) ==
    CASE pos \in {"makedirs", "download"} -> "outer_except"
      [] pos \in {"load", "batch", "concat", "write", "upload"} -> "inner_except"
      [] pos = "cleanup" -> "return"
      [] pos = "finally" -> "done"
      [] OTHER -> "escaped"

Raise(pos, msg) == pc' = ExceptClause(pos) /\ exc' = msg

Stages == {"download", "render", "write", "upload"}

(***************************************************************************)
(* Actions of caption_video_v1 (download, process, upload, clean up).      *)
(***************************************************************************)
\* caption_video.py:78-79: os.makedirs of downloads/ and output/
MakeDirs ==
    /\ pc = "makedirs"
    /\ \/ pc' = "download" /\ exc' = exc
       \/ Raise("makedirs", "cannot create directory")
    /\ UNCHANGED <<inputs, batches, i, previous_end_time, clips, open_clips, downloaded,
                   output_file, steps_ok, response>>

\* caption_video.py:82 and 128-149: download_video. The request can fail
\* before the local file is opened (lines 139-140) or while chunks are written
\* to it (lines 141-143); either way line 149 raises and line 82 never
\* assigns local_video_path.
Download ==
    /\ pc = "download"
    /\ \/ /\ downloaded' = TRUE
          /\ steps_ok' = steps_ok \cup {"download"}
          /\ pc' = "load"
          /\ exc' = exc
       \/ /\ downloaded' \in BOOLEAN
          /\ steps_ok' = steps_ok
          /\ Raise("download", "Failed to download video")
    /\ UNCHANGED <<inputs, batches, i, previous_end_time, clips, open_clips,
                   output_file, response>>

\* caption_video.py:160-173: VideoFileClip(video_path), clips = [], i = 0,
\* previous_end_time = 0
LoadVideo ==
    /\ pc = "load"
    /\ \/ /\ open_clips' = open_clips \cup {VideoHandle}
          /\ pc' = "batch"
          /\ exc' = exc
       \/ /\ open_clips' = open_clips
          /\ Raise("load", "cannot open video")
    /\ i' = 0
    /\ previous_end_time' = 0
    /\ clips' = <<>>
    /\ batches' = <<>>
    /\ UNCHANGED <<inputs, downloaded, output_file, steps_ok, response>>

\* the loop state of process_transcription after one more iteration
Iterated ==
    LoopBody(transcribe, replace_words, max_words_per_line, all_caps, video_duration,
             [i |-> i, previous_end_time |-> previous_end_time, clips |-> clips])

\* caption_video.py:178-182: batch, start_time and end_time of the iteration
\* that starts at i
Formed ==
    LET batch == BatchAt(transcribe, i, max_words_per_line)
    IN  [entries |-> batch, start_time |-> StartTime(batch), end_time |-> EndTime(batch)]

\* caption_video.py:175-189: a batch outside the validity gate is skipped
BatchSkip ==
    /\ pc = "batch"
    /\ i < Len(transcribe)
    /\ LET batch == BatchAt(transcribe, i, max_words_per_line)
       IN  InvalidRange(StartTime(batch), EndTime(batch), video_duration)
    /\ i' = Iterated.i
    /\ previous_end_time' = Iterated.previous_end_time
    /\ clips' = Iterated.clips
    /\ batches' = Append(batches, Formed)
    /\ UNCHANGED <<inputs, pc, open_clips, downloaded, output_file, exc, steps_ok,
                   response>>

\* caption_video.py:175-282: an accepted batch: optional gap clip, the cursor,
\* the display text, the composite; i moves to the next batch
BatchCaption ==
    /\ pc = "batch"
    /\ i < Len(transcribe)
    /\ LET batch == BatchAt(transcribe, i, max_words_per_line)
       IN  ~InvalidRange(StartTime(batch), EndTime(batch), video_duration)
    /\ i' = Iterated.i
    /\ previous_end_time' = Iterated.previous_end_time
    /\ clips' = Iterated.clips
    /\ open_clips' = open_clips \cup ClipHandles(clips')
    /\ batches' = Append(batches, Formed)
    /\ UNCHANGED <<inputs, pc, downloaded, output_file, exc, steps_ok, response>>

\* caption_video.py:191-278: the media engine raises while the caption of an
\* accepted batch is built (TextClip at line 262, CompositeVideoClip at 278):
\* the gap clip is already in the list, the cursor is already moved, the
\* sub-clip of line 220 is open and in no list
BatchRenderFails ==
    /\ pc = "batch"
    /\ i < Len(transcribe)
    /\ LET batch == BatchAt(transcribe, i, max_words_per_line)
           start_time == StartTime(batch)
           end_time == EndTime(batch)
       IN  /\ ~InvalidRange(start_time, end_time, video_duration)
           /\ previous_end_time' = end_time
           /\ clips' = WithGap(clips, previous_end_time, start_time)
           /\ open_clips' = open_clips \cup ClipHandles(clips')
                                \cup {<<"word", Len(clips') + 1>>}
    /\ Raise("batch", "cannot render caption")
    /\ batches' = Append(batches, Formed)
    /\ UNCHANGED <<inputs, i, downloaded, output_file, steps_ok, response>>

\* caption_video.py:284-288: the loop is over; the rest of the video, if any
Remaining ==
    /\ pc = "batch"
    /\ ~(i < Len(transcribe))
    /\ clips' = WithRemaining(clips, previous_end_time, video_duration)
    /\ open_clips' = open_clips \cup ClipHandles(clips')
    /\ pc' = "concat"
    /\ UNCHANGED <<inputs, batches, i, previous_end_time, downloaded, output_file, exc,
                   steps_ok, response>>

\* caption_video.py:291-293: concatenate_videoclips(clips)
Concatenate ==
    /\ pc = "concat"
    /\ clips # <<>>
    /\ \/ /\ open_clips' = open_clips \cup {FinalHandle}
          /\ steps_ok' = steps_ok \cup {"render"}
          /\ pc' = "write"
          /\ exc' = exc
       \/ /\ open_clips' = open_clips
          /\ steps_ok' = steps_ok
          /\ Raise("concat", "cannot concatenate clips")
    /\ UNCHANGED <<inputs, batches, i, previous_end_time, clips, downloaded, output_file,
                   response>>

\* caption_video.py:311-314: no clip at all: video.close() and raise
NoValidSegments ==
    /\ pc = "concat"
    /\ clips = <<>>
    /\ open_clips' = open_clips \ {VideoHandle}
    /\ Raise("concat", "No valid word segments found in transcription")
    /\ UNCHANGED <<inputs, batches, i, previous_end_time, clips, downloaded, output_file,
                   steps_ok, response>>

\* caption_video.py:295-310: write the output file, close the clips, return
\* the file name. A failed write may leave a partial file under output/.
WriteVideo ==
    /\ pc = "write"
    /\ \/ /\ output_file' = TRUE
          /\ open_clips' = CloseAll(open_clips, clips)
          /\ steps_ok' = steps_ok \cup {"write"}
          /\ pc' = "upload"
          /\ exc' = exc
       \/ /\ output_file' \in BOOLEAN
          /\ open_clips' = open_clips
          /\ steps_ok' = steps_ok
          /\ Raise("write", "cannot write output video")
    /\ UNCHANGED <<inputs, batches, i, previous_end_time, clips, downloaded, response>>

\* caption_video.py:99 and cloud_storage.py:17-26: upload_file(output_path)
Upload ==
    /\ pc = "upload"
    /\ \/ /\ steps_ok' = steps_ok \cup {"upload"}
          /\ pc' = "cleanup"
          /\ exc' = exc
       \/ /\ steps_ok' = steps_ok
          /\ Raise("upload", "cannot upload file")
    /\ UNCHANGED <<inputs, batches, i, previous_end_time, clips, open_clips, downloaded,
                   output_file, response>>

\* caption_video.py:103-110: remove the source, then the output; an error of
\* either os.remove is caught at line 109 and only logged
Cleanup ==
    /\ pc = "cleanup"
    /\ \/ /\ downloaded' = FALSE
          /\ output_file' = FALSE
          /\ pc' = "return"
          /\ exc' = exc
       \/ /\ downloaded' = downloaded
          /\ output_file' = output_file
          /\ Raise("cleanup", "cannot remove source file")
       \/ /\ downloaded' = FALSE
          /\ output_file' = output_file
          /\ Raise("cleanup", "cannot remove output file")
    /\ UNCHANGED <<inputs, batches, i, previous_end_time, clips, open_clips, steps_ok,
                   response>>

\* caption_video.py:112: return cloud_url, "/v1/video/caption", 200
Return ==
    /\ pc = "return"
    /\ response' = Success("cloud_url")
    /\ pc' = "finally"
    /\ UNCHANGED <<inputs, batches, i, previous_end_time, clips, open_clips, downloaded,
                   output_file, exc, steps_ok>>

\* caption_video.py:114-116: except Exception of the inner try
InnerExcept ==
    /\ pc = "inner_except"
    /\ response' = Failure(exc)
    /\ pc' = "finally"
    /\ UNCHANGED <<inputs, batches, i, previous_end_time, clips, open_clips, downloaded,
                   output_file, exc, steps_ok>>

\* caption_video.py:117-123: finally: remove the downloaded file if it is
\* there; an error is swallowed by the bare except
Finally ==
    /\ pc = "finally"
    /\ \/ /\ downloaded' = FALSE
          /\ pc' = "done"
          /\ exc' = exc
       \/ /\ downloaded
          /\ downloaded' = downloaded
          /\ Raise("finally", exc)
    /\ UNCHANGED <<inputs, batches, i, previous_end_time, clips, open_clips, output_file,
                   steps_ok, response>>

\* caption_video.py:124-126: except Exception of the outer try
OuterExcept ==
    /\ pc = "outer_except"
    /\ response' = Failure(exc)
    /\ pc' = "done"
    /\ UNCHANGED <<inputs, batches, i, previous_end_time, clips, open_clips, downloaded,
                   output_file, exc, steps_ok>>

\* process_transcription (caption_video.py:151-314)
NextProcess ==
    \/ LoadVideo
    \/ BatchSkip
    \/ BatchCaption
    \/ BatchRenderFails
    \/ Remaining
    \/ Concatenate
    \/ NoValidSegments
    \/ WriteVideo

\* caption_video_v1 (caption_video.py:66-126)
Next ==
    \/ MakeDirs
    \/ Download
    \/ NextProcess
    \/ Upload
    \/ Cleanup
    \/ Return
    \/ InnerExcept
    \/ Finally
    \/ OuterExcept

\* process_transcription has returned the output file name (line 310)
ProcessReturned == "write" \in steps_ok

\* the while loop of process_transcription has run to its end (line 284)
LoopOver == pc = "concat" \/ "render" \in steps_ok

\* process_transcription has returned or raised
ProcessExited ==
    pc \notin {"makedirs", "download", "outer_except", "load", "batch", "concat", "write"}

(***************************************************************************)
(* Requests.                                                               *)
(***************************************************************************)
RECURSIVE SeqsUpTo(_, _)
SeqsUpTo(S, n) ==
    IF n = 0 THEN {<<>>}
    ELSE LET shorter == SeqsUpTo(S, n - 1)
         IN  shorter \cup {Append(q, x) : q \in {r \in shorter : Len(r) = n - 1}, x \in S}

\* the state of a request before caption_video_v1 runs
Fresh ==
    /\ pc = "makedirs"
    /\ i = 0
    /\ previous_end_time = 0
    /\ clips = <<>>
    /\ batches = <<>>
    /\ open_clips = {}
    /\ downloaded = FALSE
    /\ output_file = FALSE
    /\ exc = ""
    /\ steps_ok = {}
    /\ response = NoResponse

\* the state when caption_video_v1 calls process_transcription (line 86)
Called ==
    /\ pc = "load"
    /\ i = 0
    /\ previous_end_time = 0
    /\ clips = <<>>
    /\ batches = <<>>
    /\ open_clips = {}
    /\ downloaded = TRUE
    /\ output_file = FALSE
    /\ exc = ""
    /\ steps_ok = {"download"}
    /\ response = NoResponse

\* caption_video.py:223 and 227: the defaults of font_family and position,
\* and a fonts directory that is not there
DefaultStyle ==
    /\ position = Middle \o <<"_">> \o <<"c", "e", "n", "t", "e", "r">>
    /\ font_family = <<"A", "r", "i", "a", "l">>
    /\ fonts_dir = [exists |-> FALSE, files |-> <<>>]

\* word entries with every kind of time range: negative start, end before
\* start, end past the video, zero length, in range
TimedEntries ==
    [word : {<<"a">>},
     start : {-1, 0, 1, MaxTime - 1, MaxTime},
     end : {0, 1, MaxTime - 1, MaxTime, MaxTime + 1}]

\* a video of no length is the only one for which line 285 adds no clip
Durations == {0, MaxTime}

\* Whole requests, one word at most
Init ==
    /\ transcribe \in SeqsUpTo(TimedEntries, 1)
    /\ replace_words = <<>>
    /\ max_words_per_line = 1
    /\ all_caps = FALSE
    /\ video_duration \in Durations
    /\ DefaultStyle
    /\ Fresh

Spec == Init /\ [][Next]_vars

\* Calls of process_transcription that vary the timing of the transcript
InitSegment ==
    /\ transcribe \in SeqsUpTo(TimedEntries, MaxWords)
    /\ replace_words = <<>>
    /\ max_words_per_line \in 1..MaxWords
    /\ all_caps = FALSE
    /\ video_duration \in Durations
    /\ DefaultStyle
    /\ Called

SpecSegment == InitSegment /\ [][NextProcess]_vars

TextEntries ==
    {[word |-> w, start |-> t[1], end |-> t[2]] :
        w \in {<<"a">>, <<"b">>, <<"A", "b">>},
        t \in {<<0, 1>>, <<1, 2>>, <<2, 2>>, <<1, 0>>}}

SampleRules ==
    {<<>>,
     <<[find |-> <<"B">>, replace |-> <<"x", "y">>]>>,
     <<[find |-> <<"a">>, replace |-> <<>>]>>}

\* Calls of process_transcription that vary the words of the transcript
InitText ==
    /\ transcribe \in SeqsUpTo(TextEntries, MaxWords)
    /\ replace_words \in SampleRules
    /\ max_words_per_line \in 1..MaxWords
    /\ all_caps \in BOOLEAN
    /\ video_duration \in Durations
    /\ DefaultStyle
    /\ Called

SpecText == InitText /\ [][NextProcess]_vars

ZoneTokens ==
    {v \o <<"_">> \o h : v \in {Bottom, Middle, Top}, h \in {Left, <<"c", "e", "n", "t", "e", "r">>, Right}}

\* tokens outside the nine zones (the schema's second "position" entry,
\* caption_video.py:45, accepts any string)
OtherTokens ==
    {<<"l", "e", "f", "t">>,
     <<"c", "e", "n", "t", "e", "r">>,
     <<>>,
     <<"t", "o", "p", "_", "b", "o", "t", "t", "o", "m">>,
     <<"m", "i", "d", "d", "l", "e", "_", "t", "o", "p", "_", "r", "i", "g", "h", "t", "_", "l", "e", "f", "t">>,
     <<"T", "o", "p", "_", "r", "i", "g", "h", "t">>}

\* Calls of process_transcription that vary the position token
InitPosition ==
    /\ transcribe \in SeqsUpTo(TextEntries, 1)
    /\ replace_words = <<>>
    /\ max_words_per_line = 1
    /\ all_caps = FALSE
    /\ video_duration \in Durations
    /\ position \in ZoneTokens \cup OtherTokens
    /\ font_family = <<"A", "r", "i", "a", "l">>
    /\ fonts_dir = [exists |-> FALSE, files |-> <<>>]
    /\ Called

SpecPosition == InitPosition /\ [][NextProcess]_vars

\* requested family names (settings 'font_family', caption_video.py:223)
FamilyNames ==
    {<<"O", "p", "e", "n", " ", "S", "a", "n", "s">>,
     <<"O", "p", "e", "n", "\t", "S", "a", "n", "s">>,
     <<"S", "a", "n", "s">>,
     <<>>,
     <<"o", "p", "e", "n", "-", "s", "a", "n", "s">>,
     <<"A", "r", "i", "a", "l">>}

\* files a fonts directory may hold (caption_video.py:327, 338)
FontFiles ==
    [base : {<<"O", "p", "e", "n", "-", "S", "a", "n", "s">>,
             <<"S", "a", "n", "s">>,
             <<"M", "o", "n", "o">>},
     ext  : {"ttf", "TTF", "txt"}]

\* the fonts directory: absent, or a listing
FontDirs ==
    {[exists |-> FALSE, files |-> <<>>]}
        \cup {[exists |-> TRUE, files |-> fs] : fs \in SeqsUpTo(FontFiles, MaxFonts)}

\* Calls of process_transcription that vary the font family and the directory
InitFont ==
    /\ transcribe \in SeqsUpTo({[word |-> <<"a">>, start |-> 0, end |-> 1],
                                [word |-> <<"a">>, start |-> 1, end |-> 0]}, 1)
    /\ replace_words = <<>>
    /\ max_words_per_line = 1
    /\ all_caps = FALSE
    /\ video_duration \in Durations
    /\ position = Middle \o <<"_">> \o <<"c", "e", "n", "t", "e", "r">>
    /\ font_family \in FamilyNames
    /\ fonts_dir \in FontDirs
    /\ Called

SpecFont == InitFont /\ [][NextProcess]_vars

ReplaceEntries ==
    {[word |-> w, start |-> t[1], end |-> t[2]] :
        w \in {<<>>, <<"a">>, <<"A", "b">>, <<"y">>},
        t \in {<<0, 1>>, <<1, 0>>}}

RuleSet ==
    [find : {<<>>, <<"a">>, <<"b">>, <<"B">>},
     replace : {<<"x">>, <<"y">>, <<"x", "b">>}]

\* Calls of process_transcription that vary the replacement rules, one word
\* per caption
InitReplace ==
    /\ transcribe \in SeqsUpTo(ReplaceEntries, 1)
    /\ replace_words \in SeqsUpTo(RuleSet, MaxRules)
    /\ max_words_per_line = 1
    /\ all_caps = FALSE
    /\ video_duration \in Durations
    /\ DefaultStyle
    /\ Called

SpecReplace == InitReplace /\ [][NextProcess]_vars

(***************************************************************************)
(* Properties of the segment timeline (process_transcription).             *)
(***************************************************************************)
\* an entry that passes the validity gate on its own
EntryValid(e) == 0 <= e.start /\ e.start <= e.end /\ e.end <= video_duration

Captions(cs) == SelectSeq(cs, LAMBDA c : c.kind = "Caption")

\* C1: when every entry of the transcript is valid on its own, the clips
\* returned are time-ordered, do not overlap, and cover [0, video_duration]
\* exactly once: the first starts at 0, each starts where the one before it
\* ends, the last ends at video_duration.
C1_CoversDurationOnce ==
    (ProcessReturned /\ \A k \in 1..Len(transcribe) : EntryValid(transcribe[k]))
    => /\ clips # <<>>
       /\ clips[1].start = 0
       /\ clips[Len(clips)].end = video_duration
       /\ \A k \in 1..Len(clips) : clips[k].start <= clips[k].end
       /\ \A k \in 1..(Len(clips) - 1) : clips[k].end = clips[k + 1].start

\* C2: a run that emits no Caption fails: process_transcription never
\* returns, and never writes an output file, for clips without a Caption.
C2_NoCaptionFails == (ProcessReturned \/ output_file) => Captions(clips) # <<>>

\* the transcript without its k-th entry
Without(words, k) == SubSeq(words, 1, k - 1) \o SubSeq(words, k + 1, Len(words))

\* C3: the clips returned for a transcript are those returned for the same
\* transcript with any one malformed entry removed.
C3_MalformedEntryIsolated ==
    ProcessReturned
    => \A k \in 1..Len(transcribe) :
          ~EntryValid(transcribe[k])
          => clips = Segments(Without(transcribe, k), replace_words,
                              max_words_per_line, all_caps, video_duration)

\* the text of a caption made of the single word w
OneWordText(w) ==
    IF all_caps THEN Upper(DisplayWord(w, replace_words))
    ELSE DisplayWord(w, replace_words)

\* C4: with max_words_per_line = 1, once the loop is over there is one Caption
\* per entry that passes the validity gate, and the n-th Caption has the
\* start, the end and the normalized word of the n-th such entry.
C4_OneCaptionPerValidWord ==
    (max_words_per_line = 1 /\ LoopOver)
    => LET valid == SelectSeq(transcribe, EntryValid)
           caps == Captions(clips)
       IN  /\ Len(caps) = Len(valid)
           /\ \A n \in 1..Len(caps) :
                 /\ caps[n].start = valid[n].start
                 /\ caps[n].end = valid[n].end
                 /\ caps[n].text = OneWordText(valid[n].word)

\* C4 happens: two valid words, a rule in force, two captions of different text
C4_Witness ==
    /\ max_words_per_line = 1
    /\ ProcessReturned
    /\ Len(transcribe) = 2
    /\ Len(Captions(clips)) = 2
    /\ Captions(clips)[1].text # Captions(clips)[2].text
    /\ replace_words # <<>>

\* C5: every clip emitted has start < end.
C5_StartBeforeEnd == \A k \in 1..Len(clips) : clips[k].start < clips[k].end

(***************************************************************************)
(* Properties of the request (caption_video_v1).                           *)
(***************************************************************************)
\* C6: no exception leaves caption_video_v1; it returns (url, route, 200)
\* exactly when download, render, write and upload all succeeded, and
\* ({error}, route, 500) otherwise; a failed clean-up changes nothing.
C6_ResponseMatchesOutcome ==
    /\ pc # "escaped"
    /\ pc = "done"
       => \/ /\ steps_ok = Stages
             /\ response = Success("cloud_url")
          \/ /\ steps_ok # Stages
             /\ response.status = 500
             /\ response.route = Route
             /\ response.body[1] = "error"
             /\ response.body[2] # ""

\* C6 happens: the clean-up after the upload failed and the answer is 200
C6_Witness ==
    /\ pc = "done"
    /\ response.status = 200
    /\ exc = "cannot remove output file"
    /\ output_file

\* C7: when caption_video_v1 has returned, neither the downloaded source nor
\* the output file is left on disk.
C7_NoFileLeft == pc = "done" => ~downloaded /\ ~output_file

\* C8: when process_transcription has returned or raised, every clip handle
\* it opened is closed.
C8_AllClipsClosed == ProcessExited => open_clips = {}

(***************************************************************************)
(* Properties of the word replacement.                                     *)
(***************************************************************************)
\* the left-to-right fold over the rules as they were given
RECURSIVE FoldRules(_, _, _)
FoldRules(word, rules, n) ==
    IF n = 0 THEN word
    ELSE LET w == FoldRules(word, rules, n - 1)
         IN  IF IsSubstring(Lower(rules[n].find), Lower(w)) THEN rules[n].replace ELSE w

\* C9: the displayed word is the left-to-right fold of the word over the
\* rules in the order given, whatever the rules (one word per caption).
C9_FoldInGivenOrder ==
    \A k \in 1..Len(clips) :
        clips[k].kind = "Caption"
        => clips[k].text = FoldRules(transcribe[1].word, replace_words, Len(replace_words))

\* no rule's replace string is equal to a rule's find string
NoReplaceIsFind(rules) ==
    \A p, q \in 1..Len(rules) : rules[p].replace # rules[q].find

\* no rule's find string occurs, ignoring case, in a rule's replace string
NoFindInReplace(rules) ==
    \A p, q \in 1..Len(rules) : ~IsSubstring(Lower(rules[q].find), Lower(rules[p].replace))

\* C10 as stated: when no replace string equals a find string, replacing the
\* displayed word again leaves it as it is.
C10_IdempotentAsStated ==
    \A k \in 1..Len(clips) :
        (clips[k].kind = "Caption" /\ NoReplaceIsFind(replace_words))
        => DisplayWord(clips[k].text, replace_words) = clips[k].text

\* C10 amended: when no find string occurs (ignoring case) in any replace
\* string, replacing the displayed word again leaves it as it is.
C10_Idempotent ==
    \A k \in 1..Len(clips) :
        (clips[k].kind = "Caption" /\ NoFindInReplace(replace_words))
        => DisplayWord(clips[k].text, replace_words) = clips[k].text

\* C10 happens: two rules, none found in a replace string, and the word shown
\* is a replacement
C10_Witness ==
    /\ Len(replace_words) = 2
    /\ replace_words[1].find # replace_words[2].find
    /\ NoFindInReplace(replace_words)
    /\ Len(clips) > 0
    /\ clips[1].kind = "Caption"
    /\ clips[1].text # transcribe[1].word

(***************************************************************************)
(* Properties of the caption style.                                        *)
(***************************************************************************)
\* the anchors every Caption of the list was given
Anchors == {<<clips[k].style.vertical_align, clips[k].style.horizontal_align>> :
               k \in {n \in 1..Len(clips) : clips[n].kind = "Caption"}}

\* the anchor pair a zone token v_h stands for
ZoneAnchor(v, h) ==
    <<IF v = Middle THEN "center" ELSE IF v = Bottom THEN "bottom" ELSE "top",
      IF h = Left THEN "left" ELSE IF h = Right THEN "right" ELSE "center">>

HasVertical == IsSubstring(Bottom, position) \/ IsSubstring(Top, position)
                   \/ IsSubstring(Middle, position)

\* C11: every caption is anchored by its position token: a zone token v_h
\* gives (v, h) with middle as center; in any token bottom wins over top over
\* middle and left over right; a token with none of bottom, top, middle gives
\* (center, center) whatever else it holds.
C11_PositionMapping ==
    \A a \in Anchors :
        /\ \A v \in {Bottom, Middle, Top}, h \in {Left, <<"c", "e", "n", "t", "e", "r">>, Right} :
              position = v \o <<"_">> \o h => a = ZoneAnchor(v, h)
        /\ IsSubstring(Bottom, position) => a[1] = "bottom"
        /\ (~IsSubstring(Bottom, position) /\ IsSubstring(Top, position)) => a[1] = "top"
        /\ (~IsSubstring(Bottom, position) /\ ~IsSubstring(Top, position)) => a[1] = "center"
        /\ (HasVertical /\ IsSubstring(Left, position)) => a[2] = "left"
        /\ (HasVertical /\ ~IsSubstring(Left, position) /\ IsSubstring(Right, position))
              => a[2] = "right"
        /\ (HasVertical /\ ~IsSubstring(Left, position) /\ ~IsSubstring(Right, position))
              => a[2] = "center"
        /\ ~HasVertical => a = <<"center", "center">>

\* C11 happens: a caption whose token names bottom and top, anchored bottom
C11_Witness ==
    /\ IsSubstring(Bottom, position)
    /\ IsSubstring(Top, position)
    /\ Anchors = {<<"bottom", "center">>}

\* the font every Caption of the list was given
Fonts == {clips[k].style.font :
             k \in {n \in 1..Len(clips) : clips[n].kind = "Caption"}}

\* the directory holds no font file
NoFontFiles == \A k \in 1..Len(fonts_dir.files) : fonts_dir.files[k].ext \notin {"ttf", "TTF"}

\* C12: when the fonts directory does not exist or holds no font file,
\* find_font_file returns the default font for every family name, the empty
\* name included, and every caption is given that font.
C12_DefaultWithoutFonts ==
    (~fonts_dir.exists \/ NoFontFiles) =>
        /\ FindFontFile(font_family, fonts_dir) = DefaultFont
        /\ Fonts \subseteq {DefaultFont}

\* C12 happens: a caption made from a directory that holds only a file that
\* is no font, named like the requested family
C12_Witness ==
    /\ fonts_dir.exists
    /\ NoFontFiles
    /\ \E k \in 1..Len(fonts_dir.files) :
           NormalizeName(fonts_dir.files[k].base) = NormalizeName(font_family)
    /\ Fonts = {DefaultFont}

\* the candidates in the order the code lists them: *.ttf, then *.TTF
Candidates ==
    SelectSeq(fonts_dir.files, LAMBDA f : f.ext = "ttf")
        \o SelectSeq(fonts_dir.files, LAMBDA f : f.ext = "TTF")

\* a candidate's lowercased basename holds one of the whitespace-separated
\* tokens of the requested family name
HoldsToken(f) ==
    LET tokens == Split(Lower(font_family))
    IN  \E n \in 1..Len(tokens) : IsSubstring(tokens[n], Lower(f.base))

\* C13: when pass 1 matches no candidate, find_font_file returns the first
\* candidate whose lowercased basename holds one of the whitespace-separated
\* tokens of the requested family name, and the default only when no
\* candidate holds a token; every caption is given the font so found.
C13_PartialMatchOnTokens ==
    (/\ fonts_dir.exists
     /\ \A k \in 1..Len(Candidates) : ~ExactMatch(NormalizeName(font_family), Candidates[k]))
    => LET holds == {k \in 1..Len(Candidates) : HoldsToken(Candidates[k])}
       IN  Fonts \subseteq
               {IF holds = {} THEN DefaultFont
                ELSE Candidates[CHOOSE k \in holds : \A j \in holds : k <= j]}

(***************************************************************************)
(* Properties of the batch loop (process_transcription, lines 172-288).    *)
(***************************************************************************)
\* C14: the cursor previous_end_time never decreases over a run of
\* process_transcription, whatever the order of the entries.
C14_CursorMonotone == [][previous_end_time' >= previous_end_time]_vars

\* a step of the loop on an accepted batch: it adds clips or ends the loop
AcceptedStep ==
    /\ pc = "batch"
    /\ i < Len(transcribe)
    /\ clips' # clips \/ pc' # "batch"

\* no Gap stands before the first Caption of the list
NoGapBeforeFirstCaption ==
    \A k \in 1..Len(clips) :
        (clips[k].kind = "Gap" /\ \E j \in (k + 1)..Len(clips) : clips[j].kind = "Caption")
            => \E j \in 1..(k - 1) : clips[j].kind = "Caption"

\* C15: an accepted batch adds Gap{previous_end_time, batch_start} right
\* before its Caption if and only if previous_end_time > 0 and
\* batch_start > previous_end_time; no Gap stands before the first Caption.
C15_GapBeforeCaption ==
    [][/\ AcceptedStep =>
            LET batch_start == transcribe[i + 1].start
                gap == previous_end_time > 0 /\ batch_start > previous_end_time
                n == Len(clips)
                new == SubSeq(clips', n + 1, Len(clips'))
            IN  /\ SubSeq(clips', 1, n) = clips
                /\ Len(SelectSeq(new, LAMBDA c : c.kind = "Gap")) = IF gap THEN 1 ELSE 0
                /\ gap => /\ new[1].kind = "Gap"
                          /\ new[1].start = previous_end_time
                          /\ new[1].end = batch_start
                /\ Len(new) <= IF gap THEN 2 ELSE 1
                /\ pc' = "batch" => /\ new # <<>>
                                    /\ new[Len(new)].kind = "Caption"
       /\ NoGapBeforeFirstCaption'
      ]_vars

\* C15 happens: the first caption starts after 0 and has no Gap before it,
\* the second starts after the cursor and has one
C15_Witness ==
    /\ pc = "batch"
    /\ Len(clips) = 3
    /\ clips[1].kind = "Caption"
    /\ clips[1].start > 0
    /\ clips[2].kind = "Gap"
    /\ clips[2].start = clips[1].end
    /\ clips[2].end = clips[3].start
    /\ clips[3].kind = "Caption"

\* C16: after the loop a Gap{previous_end_time, video_duration} is added if
\* and only if previous_end_time < video_duration, so the last clip of a run
\* that returns ends at video_duration.
C16_TrailingGap ==
    [][/\ (pc = "batch" /\ pc' = "concat") =>
            IF previous_end_time < video_duration
            THEN /\ Len(clips') = Len(clips) + 1
                 /\ SubSeq(clips', 1, Len(clips)) = clips
                 /\ clips'[Len(clips')].kind = "Gap"
                 /\ clips'[Len(clips')].start = previous_end_time
                 /\ clips'[Len(clips')].end = video_duration
            ELSE clips' = clips
       /\ ProcessReturned' => clips'[Len(clips')].end = video_duration
      ]_vars

\* C16 happens: duration 3, words a[0,1] b[1,2], width 2 give
\* [Caption(0,2,"a b"), Gap(2,3)]
C16_Witness ==
    /\ ProcessReturned
    /\ video_duration = 3
    /\ max_words_per_line = 2
    /\ Len(clips) = 2
    /\ clips[1].kind = "Caption"
    /\ clips[1].start = 0
    /\ clips[1].end = 2
    /\ clips[1].text = <<"a", " ", "b">>
    /\ clips[2].kind = "Gap"
    /\ clips[2].start = 2
    /\ clips[2].end = 3

Ceil(n, m) == (n + m - 1) \div m

\* the entries of a list of batches, in order
RECURSIVE Flatten(_)
Flatten(bs) == IF bs = <<>> THEN <<>> ELSE Head(bs).entries \o Flatten(Tail(bs))

\* C17: the loop makes exactly ceil(n/m) iterations; the batches it forms,
\* accepted or not, are the consecutive runs of m entries of the transcript
\* in input order, only the last may be shorter; a batch spans from its first
\* entry's start to its last entry's end.
C17_BatchesPartition ==
    LET n == Len(transcribe)
        m == max_words_per_line
        flat == Flatten(batches)
    IN  /\ \A k \in 1..Len(batches) :
              LET b == batches[k]
              IN  /\ Len(b.entries) \in 1..m
                  /\ k < Len(batches) => Len(b.entries) = m
                  /\ b.start_time = b.entries[1].start
                  /\ b.end_time = b.entries[Len(b.entries)].end
        /\ Len(flat) <= n
        /\ flat = SubSeq(transcribe, 1, Len(flat))
        /\ Len(batches) <= Ceil(n, m)
        /\ LoopOver => /\ Len(batches) = Ceil(n, m)
                       /\ flat = transcribe

\* C17 happens: two entries in one batch of width 2, discarded as a whole
C17_Witness ==
    /\ LoopOver
    /\ max_words_per_line = 2
    /\ Len(transcribe) = 2
    /\ Len(batches) = 1
    /\ Len(batches[1].entries) = 2
    /\ Captions(clips) = <<>>

\* C18: a batch is discarded exactly when batch_end < batch_start, or
\* batch_start < 0, or batch_end > video_duration; a discarded batch adds no
\* clip, leaves previous_end_time alone, and the loop goes on with the next
\* batch; any other batch gets its Caption unless the media engine raises.
C18_DiscardedBatch ==
    [][(pc = "batch" /\ i < Len(transcribe)) =>
            LET last == Min(i + max_words_per_line, Len(transcribe))
                batch_start == transcribe[i + 1].start
                batch_end == transcribe[last].end
            IN  IF batch_end < batch_start \/ batch_start < 0 \/ batch_end > video_duration
                THEN /\ clips' = clips
                     /\ previous_end_time' = previous_end_time
                     /\ pc' = "batch"
                     /\ i' = last
                ELSE Captions(clips') # Captions(clips) \/ pc' # "batch"
      ]_vars

\* C18 happens: the first entry was discarded, the second got its caption
C18_Witness ==
    /\ pc = "batch"
    /\ max_words_per_line = 1
    /\ Len(transcribe) = 2
    /\ i = 2
    /\ ~EntryValid(transcribe[1])
    /\ Len(clips) = 1
    /\ clips[1].kind = "Caption"
    /\ clips[1].start = transcribe[2].start

\* the first n normalized words of a batch with one space between each two
RECURSIVE JoinedWords(_, _)
JoinedWords(entries, n) ==
    IF n = 0 THEN <<>>
    ELSE IF n = 1 THEN DisplayWord(entries[1].word, replace_words)
    ELSE JoinedWords(entries, n - 1) \o <<" ">> \o DisplayWord(entries[n].word, replace_words)

\* the batches that pass the validity gate
AcceptedBatches ==
    SelectSeq(batches, LAMBDA b : ~(b.end_time < b.start_time \/ b.start_time < 0
                                       \/ b.end_time > video_duration))

\* C19: the text of a Caption is the normalized words of its batch joined by
\* exactly one space between each two consecutive words, also when a word
\* normalizes to the empty string; with all_caps it is the uppercase of that.
C19_JoinedBySingleSpaces ==
    \A n \in 1..Len(Captions(clips)) :
        LET entries == AcceptedBatches[n].entries
            t == JoinedWords(entries, Len(entries))
        IN  Captions(clips)[n].text = IF all_caps THEN Upper(t) ELSE t

\* C20: every clip emitted has 0 <= start <= end <= video_duration.
C20_ClipsInsideVideo ==
    \A k \in 1..Len(clips) :
        /\ 0 <= clips[k].start
        /\ clips[k].start <= clips[k].end
        /\ clips[k].end <= video_duration

\* C20 happens: an entry starting before 0 or ending after the video, and
\* the run returns a caption and a gap
C20_Witness ==
    /\ ProcessReturned
    /\ \E k \in 1..Len(transcribe) :
           transcribe[k].start < 0 \/ transcribe[k].end > video_duration
    /\ Captions(clips) # <<>>
    /\ Len(clips) > Len(Captions(clips))

\* every batch formed so far has 0 <= start < end <= video_duration and starts
\* at or after the end of the batch before it
BatchesInOrder ==
    /\ \A k \in 1..Len(batches) :
          /\ 0 <= batches[k].start_time
          /\ batches[k].start_time < batches[k].end_time
          /\ batches[k].end_time <= video_duration
    /\ \A k \in 2..Len(batches) : batches[k].start_time >= batches[k - 1].end_time

\* C21: when every batch has 0 <= start < end <= video_duration and starts at
\* or after the end of the batch before it, the clips are strictly
\* time-ordered and contiguous, they begin at the first batch's start, and
\* once the loop is over they end at video_duration: only the lead-in
\* [0, first batch's start) can be left uncovered.
C21_ContiguousAfterLeadIn ==
    BatchesInOrder =>
        /\ \A k \in 1..Len(clips) : clips[k].start < clips[k].end
        /\ \A k \in 1..(Len(clips) - 1) : clips[k].end = clips[k + 1].start
        /\ (clips # <<>> /\ batches # <<>>) => clips[1].start = batches[1].start_time
        /\ (LoopOver /\ batches # <<>>) =>
              /\ clips # <<>>
              /\ clips[Len(clips)].end = video_duration

\* C21 happens: two batches in order, the first after 0; the run returns
\* clips that begin at the first batch's start, the lead-in uncovered
C21_Witness ==
    /\ ProcessReturned
    /\ BatchesInOrder
    /\ Len(batches) >= 2
    /\ clips[1].start > 0
    /\ Len(clips) = Len(batches)

====
